---- MODULE Spec2Model ----
(***************************************************************************)
(* Model of build.rs: the build script that selects the active API         *)
(* version, resolves every declared dependency to a GitHub reference,      *)
(* downloads and unpacks its tarball under <target>/deps/<key>, and folds  *)
(* the unpacked directory into the protos / includes / exclude_comments    *)
(* lists handed to tonic_build.                                            *)
(*                                                                         *)
(* Paths are sequences of path components.  An environment key is a        *)
(* sequence of tokens: the feature prefix is one token, the rest of the    *)
(* key is given character group by character group.                        *)
(***************************************************************************)
EXTENDS Integers, Sequences, FiniteSets, TLC

VARIABLES
    env,              \* env::vars(): the environment keys, in enumeration order
    pc,               \* position of main (or of the resolver driver)
    err,              \* the panic that ended the run, "" while there is none
    api_version,      \* main: let api_version
    i,                \* main: index of the current BUILD_DEPS entry
    key,              \* the current dependency key
    ref_,             \* get_tarball: let ref_
    uri,              \* get_tarball: let uri
    fs,               \* deps/<key>: top-level entry name -> the tree it holds
    contents_dir,     \* main: let contents_dir (the path download_tarball returned)
    protos,           \* main: let mut protos
    includes,         \* main: let mut includes
    exclude_comments, \* main: let mut exclude_comments
    compiled,         \* the arguments compile_protos_with_config was called with
    net,              \* history: the keys ureq::get was called for, in order
    fs_at_call,       \* history: fs[key] when download_tarball was entered
    unpacked,         \* history: the shape and top-level entry of this run's archive
    dropped,          \* history: keys whose glob walk yielded an Err that was dropped
    multi             \* history: how many archives held a second top-level entry

vars == <<env, pc, err, api_version, i, key, ref_, uri, fs, contents_dir, protos,
          includes, exclude_comments, compiled, net, fs_at_call, unpacked, dropped,
          multi>>

-----------------------------------------------------------------------------
(* Bounds of the model. *)

\* longest environment (number of keys) enumerated
MaxEnv == 2
\* how many deps/<key> directories may hold an entry left by an earlier run
MaxPrior == 1
\* how many archives of one run may hold a second top-level entry
MaxMulti == 1

None == "<none>"

-----------------------------------------------------------------------------
(* Static tables. *)

\* BUILD_DEPS with a dependency declared that no table pins.
BuildDepsWithUnpinned ==
    << [key |-> "envoy",         org |-> "envoyproxy",             repo |-> "envoy"],
       [key |-> "xds",           org |-> "cncf",                   repo |-> "xds"],
       [key |-> "validate",      org |-> "bufbuild",               repo |-> "protoc-gen-validate"],
       [key |-> "googleapis",    org |-> "googleapis",             repo |-> "googleapis"],
       [key |-> "opencensus",    org |-> "census-instrumentation", repo |-> "opencensus-proto"],
       [key |-> "opentelemetry", org |-> "open-telemetry",         repo |-> "opentelemetry-proto"],
       [key |-> "prometheus",    org |-> "prometheus",             repo |-> "client_model"],
       [key |-> "cel",           org |-> "google",                 repo |-> "cel-spec"] >>

\* const BUILD_DEPS: phf::OrderedMap (iteration order = declaration order)
BUILD_DEPS ==
    << [key |-> "envoy",         org |-> "envoyproxy",             repo |-> "envoy"],
       [key |-> "xds",           org |-> "cncf",                   repo |-> "xds"],
       [key |-> "validate",      org |-> "bufbuild",               repo |-> "protoc-gen-validate"],
       [key |-> "googleapis",    org |-> "googleapis",             repo |-> "googleapis"],
       [key |-> "opencensus",    org |-> "census-instrumentation", repo |-> "opencensus-proto"],
       [key |-> "opentelemetry", org |-> "open-telemetry",         repo |-> "opentelemetry-proto"],
       [key |-> "prometheus",    org |-> "prometheus",             repo |-> "client_model"] >>

DeclaredKeys == {BUILD_DEPS[n].key : n \in 1..Len(BUILD_DEPS)}

\* position of a declared key in BUILD_DEPS
DepIndex(k) == CHOOSE n \in 1..Len(BUILD_DEPS) : BUILD_DEPS[n].key = k

\* const GITHUB_BUILD_DEP_REFS: version -> (key -> reference)
GITHUB_BUILD_DEP_REFS ==
    [v \in {"1.32", "1.31", "1.30"} |->
        CASE v = "1.32" -> [k \in {"envoy"} |-> "v1.32.0"]
          [] v = "1.31" -> [k \in {"envoy"} |-> "v1.31.0"]
          [] v = "1.30" -> [k \in {} |-> ""]]

\* The table with a key's default missing: the slip of declaring a dependency
\* in BUILD_DEPS without pinning it.
DefaultRefsWithoutXds ==
    [k \in {"envoy", "validate", "googleapis", "opencensus", "opentelemetry",
            "prometheus"} |->
        CASE k = "envoy"         -> "v1.30.0"
          [] k = "validate"      -> "v1.1.1-SNAPSHOT.22"
          [] k = "googleapis"    -> "b819b9552ddb98c5d2f68719c34b729cfa370fcc"
          [] k = "opencensus"    -> "v0.4.1"
          [] k = "opentelemetry" -> "v1.5.0"
          [] k = "prometheus"    -> "v0.6.1"]

\* const GITHUB_DEFAULT_BUILD_DEP_REFS: key -> reference
GITHUB_DEFAULT_BUILD_DEP_REFS ==
    [k \in {"envoy", "xds", "validate", "googleapis", "opencensus", "opentelemetry",
            "prometheus"} |->
        CASE k = "envoy"         -> "v1.30.0"
          [] k = "xds"           -> "cff3c89139a3e6a0d4fbddfd158ad895e9b30840"
          [] k = "validate"      -> "v1.1.1-SNAPSHOT.22"
          [] k = "googleapis"    -> "b819b9552ddb98c5d2f68719c34b729cfa370fcc"
          [] k = "opencensus"    -> "v0.4.1"
          [] k = "opentelemetry" -> "v1.5.0"
          [] k = "prometheus"    -> "v0.6.1"]

\* const BUILD_DEP_DIRS: key -> subdirectory
BUILD_DEP_DIRS == [k \in {"opencensus"} |-> "src"]

-----------------------------------------------------------------------------
(* get_github_tarball_uri, get_github_ref *)

\* fn get_github_tarball_uri(org, repo, ref_)
get_github_tarball_uri(org, repo, r) ==
    "https://api.github.com/repos/" \o org \o "/" \o repo \o "/tarball/" \o r

\* Result of a call that may panic: the value, or the panic.
Ok(v) == [panic |-> "", val |-> v]
Panic(p) == [panic |-> p, val |-> None]

\* The resolver with the override lookup left out: every key gets its default.
get_github_ref_default_only(k, version) ==
    IF version \in DOMAIN GITHUB_BUILD_DEP_REFS
    THEN IF k \in DOMAIN GITHUB_DEFAULT_BUILD_DEP_REFS
         THEN Ok(GITHUB_DEFAULT_BUILD_DEP_REFS[k])
         ELSE Panic("UnresolvableDependency")
    ELSE Panic("UnsupportedVersion")

\* The resolver falling back to the defaults for an unknown version too.
get_github_ref_lenient(k, version) ==
    IF version \in DOMAIN GITHUB_BUILD_DEP_REFS
       /\ k \in DOMAIN GITHUB_BUILD_DEP_REFS[version]
    THEN Ok(GITHUB_BUILD_DEP_REFS[version][k])
    ELSE IF k \in DOMAIN GITHUB_DEFAULT_BUILD_DEP_REFS
         THEN Ok(GITHUB_DEFAULT_BUILD_DEP_REFS[k])
         ELSE Panic("UnresolvableDependency")

\* fn get_github_ref(key, version): match GITHUB_BUILD_DEP_REFS.get(version)
get_github_ref(k, version) ==
    IF version \in DOMAIN GITHUB_BUILD_DEP_REFS
    THEN LET refs == GITHUB_BUILD_DEP_REFS[version] IN
         IF k \in DOMAIN refs
         THEN Ok(refs[k])
         ELSE IF k \in DOMAIN GITHUB_DEFAULT_BUILD_DEP_REFS   \* .get(key).unwrap()
              THEN Ok(GITHUB_DEFAULT_BUILD_DEP_REFS[k])
              ELSE Panic("UnresolvableDependency")
    ELSE Panic("UnsupportedVersion")                          \* panic!("unsupported version")

-----------------------------------------------------------------------------
(* get_api_version *)

FEATURE_PREFIX == "CARGO_FEATURE_API_VERSION_"

\* key.starts_with("CARGO_FEATURE_API_VERSION_")
starts_with_prefix(k) == Len(k) > 0 /\ Head(k) = FEATURE_PREFIX

\* key.strip_prefix("CARGO_FEATURE_API_VERSION_").unwrap()
strip_prefix(k) == Tail(k)

RECURSIVE replace_underscores(_)
\* .to_string().replace("_", ".")
replace_underscores(s) ==
    IF s = <<>> THEN ""
    ELSE (IF Head(s) = "_" THEN "." ELSE Head(s)) \o replace_underscores(Tail(s))

RECURSIVE api_version_scan_last_wins(_, _, _, _)
\* The loop without the `found` check: a later selector silently replaces an earlier one.
api_version_scan_last_wins(e, n, version, found) ==
    IF n > Len(e) THEN Ok(version)
    ELSE IF starts_with_prefix(e[n])
         THEN api_version_scan_last_wins(e, n + 1,
                                         replace_underscores(strip_prefix(e[n])), TRUE)
         ELSE api_version_scan_last_wins(e, n + 1, version, found)

RECURSIVE api_version_scan(_, _, _, _)
\* for (key, _) in env::vars() { ... } from the n-th variable on
api_version_scan(e, n, version, found) ==
    IF n > Len(e) THEN Ok(version)
    ELSE IF starts_with_prefix(e[n])
         THEN IF found
              THEN Panic("MultipleVersionsSelected")
              ELSE api_version_scan(e, n + 1,
                                    replace_underscores(strip_prefix(e[n])), TRUE)
         ELSE api_version_scan(e, n + 1, version, found)

\* fn get_api_version(): version = "1.32", found = false, then the loop
get_api_version(e) == api_version_scan(e, 1, "1.32", FALSE)

-----------------------------------------------------------------------------
(* Paths, the deps/ directory and the archives the provider serves. *)

\* get_target_dir(): CARGO_BUILD_TARGET_DIR or <cwd>/target
target_dir == <<"target">>

\* main: let deps_path = target_path.join("deps")
deps_path == target_dir \o <<"deps">>

\* main: let dep_path = deps_path.join(key)
dep_path(k) == deps_path \o <<k>>

IsPrefix(s, t) == Len(s) <= Len(t) /\ SubSeq(t, 1, Len(s)) = s

Last(s) == s[Len(s)]

\* The single top-level directory of the snapshot archive of (org, repo) at r.
EntryName(dep, r) == dep.org \o "-" \o dep.repo \o "-" \o r

\* A second top-level entry some archives carry beside the snapshot directory.
EXTRA_ENTRY == "pax_global_header"

\* A file or directory of an unpacked tree, relative to the top-level entry.
File(d, n, x) == [dir |-> d, name |-> n, ext |-> x, kind |-> "file", readable |-> TRUE]
LockedDir(d)  == [dir |-> d, name |-> "", ext |-> "", kind |-> "dir", readable |-> FALSE]

\* The trees an entry may hold, each listed in the (sorted) order a walk visits it.
TreeNodes(t) ==
    CASE t = "full" ->
            << File(<<"api", "foo", "v2">>, "old", "proto"),
               File(<<"api", "foo", "v3">>, "BUILD", ""),
               File(<<"api", "foo", "v3">>, "bar", "proto"),
               File(<<"api", "v3">>, "top", "proto"),
               File(<<"source", "v3">>, "impl", "proto") >>
      [] t = "locked" ->
            << File(<<"api", "foo", "v3">>, "bar", "proto"),
               LockedDir(<<"api", "locked">>),
               File(<<"source", "v3">>, "impl", "proto") >>
      [] t = "noapi" ->
            << File(<<"source", "v3">>, "impl", "proto") >>
      [] OTHER -> << File(<<>>, "README", "md") >>

\* The trees the archive of a key may hold.
ArchiveTrees(k) == IF k = "envoy" THEN {"full", "locked", "noapi"} ELSE {"plain"}

\* The tree an entry left by an earlier run holds.
PriorTree(k) == IF k = "envoy" THEN "full" ELSE "plain"

\* The references a key was or is pinned to by the tables.
KnownRefs(k) ==
    {GITHUB_BUILD_DEP_REFS[v][k] :
        v \in {w \in DOMAIN GITHUB_BUILD_DEP_REFS : k \in DOMAIN GITHUB_BUILD_DEP_REFS[w]}}
    \cup {GITHUB_DEFAULT_BUILD_DEP_REFS[d] : d \in {k} \cap DOMAIN GITHUB_DEFAULT_BUILD_DEP_REFS}

EmptyDir == [e \in {} |-> ""]

\* A deps/<key> that does not exist yet.
Absent == [exists |-> FALSE, entries |-> EmptyDir]

\* The contents deps/<key> may have when the run starts: absent (a clean
\* target directory) or holding the entry an earlier run unpacked.
PriorContents(k) ==
    {Absent} \cup {[exists |-> TRUE,
                     entries |-> [e \in {EntryName(BUILD_DEPS[DepIndex(k)], r)} |->
                                     PriorTree(k)]] : r \in KnownRefs(k)}

\* Unpacking entries over a directory: same-named entries are overwritten.
Unpack(dir, entries) ==
    [e \in DOMAIN dir \cup DOMAIN entries |->
        IF e \in DOMAIN entries THEN entries[e] ELSE dir[e]]

-----------------------------------------------------------------------------
(* glob and the per-key assembly rules *)

\* The file name of a node.
FileName(n) == IF n.ext = "" THEN n.name ELSE n.name \o "." \o n.ext

\* glob(&format!("{api_dir}/**/v3/*.proto")): the iterator's items, in walk
\* order, over the tree under `root`: Ok(path) for a match, Err for a
\* directory under api_dir that cannot be read.
glob_v3_protos(root, tree, api_path) ==
    LET nodes == TreeNodes(tree)
        Item(n) ==
            LET full == root \o n.dir IN
            IF n.kind = "dir"
            THEN IF IsPrefix(api_path, full) /\ ~n.readable
                 THEN [ok |-> FALSE, skip |-> FALSE, path |-> full]
                 ELSE [ok |-> FALSE, skip |-> TRUE, path |-> full]
            ELSE IF /\ IsPrefix(api_path, full)
                    /\ Len(full) > Len(api_path)
                    /\ Last(full) = "v3"
                    /\ n.ext = "proto"
                 THEN [ok |-> TRUE, skip |-> FALSE, path |-> full \o <<FileName(n)>>]
                 ELSE [ok |-> FALSE, skip |-> TRUE, path |-> full]
        all == [m \in 1..Len(nodes) |-> Item(nodes[m])]
    IN  SelectSeq(all, LAMBDA it : ~it.skip)

\* .filter_map(Result::ok).map(|x| x.to_str().unwrap().to_string()).collect()
collect_ok(items) ==
    LET oks == SelectSeq(items, LAMBDA it : it.ok)
    IN  [m \in 1..Len(oks) |-> oks[m].path]

HasErr(items) == \E m \in 1..Len(items) : ~items[m].ok

\* The else branch with the BUILD_DEP_DIRS lookup left out.
other_include_no_subdir(k, contents_path) == contents_path

\* main, the else branch: match BUILD_DEP_DIRS.get(&key)
other_include(k, contents_path) ==
    IF k \in DOMAIN BUILD_DEP_DIRS
    THEN contents_path \o <<BUILD_DEP_DIRS[k]>>
    ELSE contents_path

\* includes.push(x) written as an insertion at the front.
push_front(v, x) == <<x>> \o v

\* Vec::push
push(v, x) == Append(v, x)

-----------------------------------------------------------------------------
(* The inputs of a run. *)

\* The environment keys a run may see: one selector per cargo feature
\* (api_version_1_32, ..., and one for a version the tables do not know),
\* and a key that is no selector.
EnvPool ==
    { <<FEATURE_PREFIX, "1", "_", "32">>,
      <<FEATURE_PREFIX, "1", "_", "31">>,
      <<FEATURE_PREFIX, "1", "_", "30">>,
      <<FEATURE_PREFIX, "1", "_", "29">>,
      <<"CARGO_BUILD_TARGET_DIR">> }

\* env::vars() enumerates distinct keys, in no promised order.
Envs ==
    {e \in UNION {[1..n -> EnvPool] : n \in 0..MaxEnv} :
        \A a, b \in 1..Len(e) : a # b => e[a] # e[b]}

Selectors(e) == {n \in 1..Len(e) : starts_with_prefix(e[n])}

\* The states deps/ may be in when the run starts: at most MaxPrior of the
\* directories hold the entry of an earlier run, the others do not exist.
PriorFs ==
    UNION {
        { [k \in DeclaredKeys |-> IF k \in K THEN g[k] ELSE Absent] :
            g \in {h \in [K -> UNION {PriorContents(k) \ {Absent} : k \in K}] :
                      \A k \in K : h[k] \in PriorContents(k)} } :
        K \in {L \in SUBSET DeclaredKeys : Cardinality(L) <= MaxPrior} }

NotUnpacked == [shape |-> None, entry |-> None]

NotCompiled == [called |-> FALSE, protos |-> <<>>, includes |-> <<>>,
                exclude_comments |-> <<>>]

\* Everything but env, fs, pc, key and api_version, as it is before main runs.
Fresh ==
    /\ err = ""
    /\ i = 1
    /\ ref_ = None
    /\ uri = None
    /\ contents_dir = <<>>
    /\ protos = <<>>
    /\ includes = <<>>
    /\ exclude_comments = <<>>
    /\ compiled = NotCompiled
    /\ net = <<>>
    /\ fs_at_call = Absent
    /\ unpacked = NotUnpacked
    /\ dropped = {}
    /\ multi = 0

Init ==
    /\ env \in Envs
    /\ fs \in PriorFs
    /\ pc = "start"
    /\ key = None
    /\ api_version = None
    /\ Fresh

\* A panic (or an unwrap of an Err) ends the run.
Abort(e) == pc' = "panic" /\ err' = e

-----------------------------------------------------------------------------
(* main *)

\* main: let api_version = get_api_version();
Main_GetApiVersion ==
    /\ pc = "start"
    /\ LET r == get_api_version(env) IN
       IF r.panic # ""
       THEN Abort(r.panic) /\ UNCHANGED api_version
       ELSE pc' = "loop" /\ api_version' = r.val /\ UNCHANGED err
    /\ UNCHANGED <<env, i, key, ref_, uri, fs, contents_dir, protos, includes,
                   exclude_comments, compiled, net, fs_at_call, unpacked, dropped, multi>>

\* for (key, dep) in BUILD_DEPS.into_iter(): the next entry, and
\* fs::create_dir_all(&dep_path).unwrap()
Main_NextDep ==
    /\ pc = "loop"
    /\ i <= Len(BUILD_DEPS)
    /\ key' = BUILD_DEPS[i].key
    /\ \/ /\ fs' = [fs EXCEPT ![key'].exists = TRUE]
          /\ pc' = "get_tarball"
          /\ UNCHANGED err
       \/ /\ ~fs[key'].exists
          /\ Abort("CreateDirFailed")
          /\ UNCHANGED fs
    /\ UNCHANGED <<env, api_version, i, ref_, uri, contents_dir, protos, includes,
                   exclude_comments, compiled, net, fs_at_call, unpacked, dropped, multi>>

\* Dependency::get_tarball up to the call of download_tarball:
\* let ref_ = get_github_ref(key, version); let uri = get_github_tarball_uri(..)
GetTarball_Resolve ==
    /\ pc = "get_tarball"
    /\ LET r == get_github_ref(key, api_version)
           dep == BUILD_DEPS[i]
       IN  IF r.panic # ""
           THEN Abort(r.panic) /\ UNCHANGED <<ref_, uri, fs_at_call, unpacked>>
           ELSE /\ ref_' = r.val
                /\ uri' = get_github_tarball_uri(dep.org, dep.repo, r.val)
                /\ fs_at_call' = fs[key]
                /\ unpacked' = NotUnpacked
                /\ pc' = "download"
                /\ UNCHANGED err
    /\ UNCHANGED <<env, api_version, i, key, fs, contents_dir, protos, includes,
                   exclude_comments, compiled, net, dropped, multi>>

\* download_tarball: let resp = ureq::get(&uri).call()?;
\* a transport error and a non-success status both come back as Err
Download_Call ==
    /\ pc = "download"
    /\ net' = Append(net, key)
    /\ \E outcome \in {"ok", "transport", "status"} :
          IF outcome = "ok"
          THEN pc' = "write" /\ UNCHANGED err
          ELSE Abort("FetchFailed")
    /\ UNCHANGED <<env, api_version, i, key, ref_, uri, fs, contents_dir, protos,
                   includes, exclude_comments, compiled, fs_at_call, unpacked, dropped,
                   multi>>

\* The body streamed straight into the target directory instead of a scratch
\* file: a stream that breaks leaves what was unpacked so far.
Download_Write_streaming ==
    /\ pc = "write"
    /\ \/ pc' = "unpack" /\ UNCHANGED <<err, fs>>
       \/ /\ Abort("ScratchWriteFailed")
          /\ fs' = [fs EXCEPT ![key].entries =
                        Unpack(@, [e \in {EntryName(BUILD_DEPS[i], ref_)} |-> "noapi"])]
    /\ UNCHANGED <<env, api_version, i, key, ref_, uri, contents_dir, protos, includes,
                   exclude_comments, compiled, net, fs_at_call, unpacked, dropped, multi>>

\* download_tarball: TempDir::new()?, fs::File::create(&path)?, io::copy(..)?
\* the scratch file lives in a temporary directory of its own
Download_Write ==
    /\ pc = "write"
    /\ \/ pc' = "unpack" /\ UNCHANGED err
       \/ Abort("ScratchWriteFailed")
    /\ UNCHANGED <<env, api_version, i, key, ref_, uri, fs, contents_dir, protos,
                   includes, exclude_comments, compiled, net, fs_at_call, unpacked,
                   dropped, multi>>

\* The top-level entries of an archive of the given shape.
ArchiveEntries(dep, r, shape, tree) ==
    CASE shape = "empty"  -> EmptyDir
      [] shape = "single" -> [e \in {EntryName(dep, r)} |-> tree]
      [] shape = "multi"  -> [e \in {EntryName(dep, r), EXTRA_ENTRY} |->
                                 IF e = EXTRA_ENTRY THEN "plain" ELSE tree]

\* download_tarball: Archive::new(GzDecoder::new(File::open(path)?)).unpack(target)?
\* The archive is whatever the provider served: no, one or two top-level entries.
Download_Unpack ==
    /\ pc = "unpack"
    /\ \E shape \in {"empty", "single", "multi"}, tree \in ArchiveTrees(key) :
          LET entries == ArchiveEntries(BUILD_DEPS[i], ref_, shape, tree) IN
          /\ shape = "multi" => multi < MaxMulti
          /\ multi' = IF shape = "multi" THEN multi + 1 ELSE multi
          /\ unpacked' = [shape |-> shape,
                          entry |-> IF shape = "empty" THEN None
                                    ELSE EntryName(BUILD_DEPS[i], ref_)]
          /\ \/ /\ fs' = [fs EXCEPT ![key].entries = Unpack(@, entries)]
                /\ pc' = "read_dir"
                /\ UNCHANGED err
             \/ \* a decoding or I/O error part-way: what was unpacked stays
                /\ shape = "single"
                /\ \E done \in BOOLEAN :
                      fs' = IF done THEN [fs EXCEPT ![key].entries = Unpack(@, entries)]
                            ELSE fs
                /\ Abort("UnpackFailed")
    /\ UNCHANGED <<env, api_version, i, key, ref_, uri, contents_dir, protos, includes,
                   exclude_comments, compiled, net, fs_at_call, dropped>>

\* download_tarball: let dir = fs::read_dir(target)?;
\* Ok(dir.last().unwrap().unwrap().path()...): read_dir promises no order, so
\* the last entry is any entry of the directory; an empty one panics.
Download_ReadDir ==
    /\ pc = "read_dir"
    /\ IF DOMAIN fs[key].entries = {}
       THEN Abort("EmptyDir") /\ UNCHANGED contents_dir
       ELSE /\ \E e \in DOMAIN fs[key].entries : contents_dir' = dep_path(key) \o <<e>>
            /\ pc' = "assemble"
            /\ UNCHANGED err
    /\ UNCHANGED <<env, api_version, i, key, ref_, uri, fs, protos, includes,
                   exclude_comments, compiled, net, fs_at_call, unpacked, dropped, multi>>

\* main: the rest of the loop body, if *key == "envoy" { .. } else { .. }
Main_Assemble ==
    /\ pc = "assemble"
    /\ IF key = "envoy"
       THEN LET api_path == contents_dir \o <<"api">>
                items == glob_v3_protos(contents_dir, fs[key].entries[Last(contents_dir)],
                                        api_path)
            IN  /\ protos' = protos \o collect_ok(items)
                /\ exclude_comments' = push(exclude_comments, api_path)
                /\ includes' = push(includes, api_path)
                /\ dropped' = IF HasErr(items) THEN dropped \cup {key} ELSE dropped
       ELSE /\ includes' = push(includes, other_include(key, contents_dir))
            /\ UNCHANGED <<protos, exclude_comments, dropped>>
    /\ i' = i + 1
    /\ pc' = "loop"
    /\ UNCHANGED <<env, err, api_version, key, ref_, uri, fs, contents_dir, compiled, net,
                   fs_at_call, unpacked, multi>>

\* main after the loop: tonic_build::configure()...compile_protos_with_config(
\* config, &protos, &includes).unwrap()
Main_Compile ==
    /\ pc = "loop"
    /\ i > Len(BUILD_DEPS)
    /\ compiled' = [called |-> TRUE, protos |-> protos, includes |-> includes,
                    exclude_comments |-> exclude_comments]
    /\ \/ pc' = "done" /\ UNCHANGED err
       \/ Abort("CodegenFailed")
    /\ UNCHANGED <<env, api_version, i, key, ref_, uri, fs, contents_dir, protos, includes,
                   exclude_comments, net, fs_at_call, unpacked, dropped, multi>>

Next ==
    \/ Main_GetApiVersion
    \/ Main_NextDep
    \/ GetTarball_Resolve
    \/ Download_Call
    \/ Download_Write
    \/ Download_Unpack
    \/ Download_ReadDir
    \/ Main_Assemble
    \/ Main_Compile

Spec == Init /\ [][Next]_vars

-----------------------------------------------------------------------------
(* The resolver on its own: get_github_ref applied to every pair of a key  *)
(* and a version string, supported or not.                                 *)

ResolverKeys == DeclaredKeys \cup {"undeclared"}

ResolverVersions == {"1.32", "1.31", "1.30", "1.29", "1.33", "2.0", "1_31", ""}

InitResolve ==
    /\ env = <<>>
    /\ fs = [k \in DeclaredKeys |-> Absent]
    /\ pc = "resolve_call"
    /\ key \in ResolverKeys
    /\ api_version \in ResolverVersions
    /\ Fresh

\* let ref_ = get_github_ref(key, version), the panic caught
Resolve_Call ==
    /\ pc = "resolve_call"
    /\ LET r == get_github_ref(key, api_version) IN
       /\ ref_' = r.val
       /\ err' = r.panic
    /\ pc' = "resolve_ret"
    /\ UNCHANGED <<env, api_version, i, key, uri, fs, contents_dir, protos, includes,
                   exclude_comments, compiled, net, fs_at_call, unpacked, dropped, multi>>

SpecResolve == InitResolve /\ [][Resolve_Call]_vars

-----------------------------------------------------------------------------
(* Properties of the resolver, checked under SpecResolve. *)

Supported == {"1.32", "1.31", "1.30"}

\* C1: for every supported version and every key the tables pin,
\* get_github_ref returns the version's override when it defines one (even
\* though a default exists too) and the default table's entry otherwise;
\* under "1.31", "envoy" resolves to "v1.31.0" and "xds" to its default.
C1_OverrideElseDefault ==
    (pc = "resolve_ret" /\ api_version \in Supported /\ key \in DeclaredKeys) =>
        /\ err = ""
        /\ IF key \in DOMAIN GITHUB_BUILD_DEP_REFS[api_version]
           THEN ref_ = GITHUB_BUILD_DEP_REFS[api_version][key]
           ELSE ref_ = GITHUB_DEFAULT_BUILD_DEP_REFS[key]
        /\ (api_version = "1.31" /\ key = "envoy") => ref_ = "v1.31.0"
        /\ (api_version = "1.32" /\ key = "envoy") => ref_ = "v1.32.0"
        /\ (api_version = "1.30" /\ key = "envoy") => ref_ = "v1.30.0"
        /\ (api_version = "1.31" /\ key = "xds") =>
                ref_ = "cff3c89139a3e6a0d4fbddfd158ad895e9b30840"

\* An override returned although the key has a default as well.
C1_Witness ==
    /\ pc = "resolve_ret"
    /\ api_version = "1.31"
    /\ key = "envoy"
    /\ key \in DOMAIN GITHUB_DEFAULT_BUILD_DEP_REFS
    /\ ref_ = "v1.31.0"

\* C2: for a version string that is no key of GITHUB_BUILD_DEP_REFS,
\* resolution ends in the unsupported-version panic for every key, and no
\* reference comes back, not even the key's default.
C2_UnsupportedVersionRejected ==
    (pc = "resolve_ret" /\ api_version \notin Supported) =>
        /\ err = "UnsupportedVersion"
        /\ ref_ = None

\* A key with a default, resolved under a version the table does not know.
C2_Witness ==
    /\ pc = "resolve_ret"
    /\ api_version = "1.29"
    /\ key = "xds"
    /\ err = "UnsupportedVersion"

\* C3: every key declared in BUILD_DEPS has an override or a default under
\* every supported version, so resolving it never ends in the
\* unresolvable-dependency panic.
C3_DeclaredKeysResolvable ==
    (pc = "resolve_ret" /\ api_version \in Supported /\ key \in DeclaredKeys) =>
        /\ err # "UnresolvableDependency"
        /\ ref_ # None
        /\ \/ key \in DOMAIN GITHUB_BUILD_DEP_REFS[api_version]
           \/ key \in DOMAIN GITHUB_DEFAULT_BUILD_DEP_REFS

\* The last declared key resolved by fallback under the version without overrides.
C3_Witness ==
    /\ pc = "resolve_ret"
    /\ api_version = "1.30"
    /\ key = "prometheus"
    /\ ref_ = "v0.6.1"

-----------------------------------------------------------------------------
(* Properties of main, checked under Spec. *)

\* The version a selector key names: CARGO_FEATURE_API_VERSION_1_31 names 1.31.
SelectorVersion(k) == k[2] \o "." \o k[4]

\* C4: with no version selector in the environment main goes on with
\* "1.32"; with exactly one it goes on with that selector's version; with
\* two or more it panics with the multiple-versions error, in whatever
\* order env::vars() enumerates the keys.
C4_SingleActiveVersion ==
    pc # "start" =>
        LET sel == Selectors(env) IN
        /\ sel = {} => api_version = "1.32" /\ err # "MultipleVersionsSelected"
        /\ Cardinality(sel) = 1 =>
              /\ \A n \in sel : api_version = SelectorVersion(env[n])
              /\ err # "MultipleVersionsSelected"
        /\ Cardinality(sel) >= 2 =>
              /\ pc = "panic"
              /\ err = "MultipleVersionsSelected"
              /\ api_version = None

\* One selector, enumerated after a key that is no selector.
C4_Witness ==
    /\ pc = "loop"
    /\ env = << <<"CARGO_BUILD_TARGET_DIR">>, <<FEATURE_PREFIX, "1", "_", "31">> >>
    /\ api_version = "1.31"

ConfigErrors == {"UnsupportedVersion", "UnresolvableDependency", "MultipleVersionsSelected"}

\* C5: a run that ends in a configuration error (unsupported version,
\* unresolvable dependency, multiple versions selected) has not started a
\* network retrieval for any dependency.
C5_ConfigErrorsBeforeNetwork == err \in ConfigErrors => net = <<>>

\* The unsupported-version panic, raised while resolving the first dependency.
C5_Witness ==
    /\ pc = "panic"
    /\ err = "UnsupportedVersion"
    /\ api_version = "1.29"
    /\ key = "envoy"
    /\ net = <<>>

\* The key a path under deps/ belongs to.
Owner(path) == path[Len(deps_path) + 1]

\* C6: no partial success: a failure of resolution, fetch, extraction or
\* assembly for any dependency aborts the run before the code generator is
\* called, and whenever the generator is called every declared dependency
\* has contributed and none of its traversals failed.
C6_NoPartialSuccess ==
    /\ err \notin {"", "CodegenFailed"} => ~compiled.called
    /\ compiled.called =>
          /\ dropped = {}
          /\ \A k \in DeclaredKeys :
                \E n \in 1..Len(compiled.includes) : Owner(compiled.includes[n]) = k

\* C7: includes and protos follow the declaration order: after any prefix
\* of BUILD_DEPS has been processed the n-th include belongs to the n-th
\* declared key, the protos of an earlier key precede those of a later one,
\* and no step reorders or removes an entry already appended.
C7_AssemblyOrder ==
    /\ [](/\ \A n \in 1..Len(includes) : Owner(includes[n]) = BUILD_DEPS[n].key
          /\ \A a, b \in 1..Len(includes) :
                a < b => DepIndex(Owner(includes[a])) < DepIndex(Owner(includes[b]))
          /\ \A a, b \in 1..Len(protos) :
                a < b => DepIndex(Owner(protos[a])) <= DepIndex(Owner(protos[b])))
    /\ [][IsPrefix(includes, includes') /\ IsPrefix(protos, protos')]_vars

\* All seven dependencies assembled, schema files among them.
C7_Witness ==
    /\ pc = "done"
    /\ Len(includes) = Len(BUILD_DEPS)
    /\ Len(protos) > 0

\* C8: each assembled dependency with extracted root R contributes exactly
\* one include: R/api for "envoy", R/src for "opencensus" (the key with a
\* configured subdirectory), R itself for every other key.
C8_IncludeRule ==
    (pc = "loop" /\ i > 1) =>
        /\ Len(includes) = i - 1
        /\ Last(includes) =
              CASE key = "envoy"      -> contents_dir \o <<"api">>
                [] key = "opencensus" -> contents_dir \o <<"src">>
                [] OTHER              -> contents_dir

\* opencensus assembled: its include is the src subdirectory, not the root.
C8_Witness ==
    /\ pc = "loop"
    /\ key = "opencensus"
    /\ Len(includes) = DepIndex("opencensus")
    /\ Last(includes) = contents_dir \o <<"src">>
    /\ Last(includes) # contents_dir

\* C9: for an archive with exactly one top-level directory, whatever
\* deps/<key> held before, download_tarball returns the path of the
\* directory this run's archive unpacked; and it returns no root when the
\* directory is empty after unpacking.
C9_ExtractedRootIsUnpacked ==
    pc = "assemble" =>
        /\ DOMAIN fs[key].entries # {}
        /\ unpacked.shape = "single" =>
              contents_dir = dep_path(key) \o <<unpacked.entry>>

Count(seq, x) == Cardinality({n \in 1..Len(seq) : seq[n] = x})

\* C10: when the retrieval or the write of the scratch file fails, the run
\* ends with that error after one request for the dependency, and
\* deps/<key> holds exactly what it held when download_tarball was entered.
C10_FetchFailureLeavesTarget ==
    err \in {"FetchFailed", "ScratchWriteFailed"} =>
        /\ pc = "panic"
        /\ Count(net, key) = 1
        /\ fs[key] = fs_at_call

\* The scratch write failing for a dependency whose directory holds an
\* entry of an earlier run.
C10_Witness ==
    /\ err = "ScratchWriteFailed"
    /\ key = "envoy"
    /\ DOMAIN fs[key].entries # {}
    /\ fs[key] = fs_at_call

====
